---- MODULE Spec2Model ----
(***************************************************************************)
(* Model of bot.py, the converter / downloader bot.                        *)
(*                                                                         *)
(* State: the module-level dictionary user_sessions, the contents of the   *)
(* TEMP_DIR directory (path -> size in MiB), the button messages that are  *)
(* on screen, the uuid4() draws made so far, the configured channel, and   *)
(* one record per update being handled (its handler, its locals and the    *)
(* await it is suspended at).                                              *)
(*                                                                         *)
(* Every handler is cut at its awaits: one action is the code that runs    *)
(* between two suspension points.  Strings are sequences of tokens; the    *)
(* characters the code splits on ("_", "/", ".") are tokens of their own,  *)
(* so os.path.join, basename, splitext, the f-strings and str.split are    *)
(* computed on them as Python computes them on characters.                 *)
(*                                                                         *)
(* Environment: the membership oracle (get_chat_member) answers any status *)
(* or fails at each query; downloads, the transcoder, archive writes and   *)
(* document uploads succeed or fail.  Status texts (reply_text, edit_text, *)
(* delete, answer) are taken to succeed.  uuid4().hex never repeats; the    *)
(* short prefixes hex[:6] and hex[:8] of archive and download names are    *)
(* taken to differ from the names already in TEMP_DIR.                     *)
(***************************************************************************)
EXTENDS Integers, Sequences, FiniteSets, TLC

VARIABLES
    REQUIRED_CHANNEL,   \* src/bot.py:21, fixed at process start
    user_sessions,      \* src/bot.py:24, user id -> list of file paths
    storage,            \* files on disk: path -> size (MiB)
    prompts,            \* conversion-button messages on screen
    uuids,              \* number of uuid4() values drawn so far
    updates,            \* number of updates taken so far
    converted,          \* history: the sources whose converted output was delivered
    tasks               \* the updates being handled

vars == <<REQUIRED_CHANNEL, user_sessions, storage, prompts, uuids, updates, converted, tasks>>

-----------------------------------------------------------------------------
(* Bounds and input sets *)

MaxUpdates == 4

Users == {"u1", "u2"}

Tasks == {1, 2}

\* uuid4().hex, by draw number
HexTable == <<"a1", "b2", "c3", "d4", "e5", "f6", "a7", "b8">>

Hex(n) == HexTable[n]

\* sizes (MiB) of inbound media, of link downloads and of transcoder outputs
MediaSizes == {24}

LinkSizes == {49, 50}

OutputSizes == {1, 50}

None == <<"<None>">>

\* (kind of media, file_name attribute) of an inbound media message
MediaInputs ==
    { [ftype |-> "image",    file_name |-> None],
      [ftype |-> "video",    file_name |-> None],
      [ftype |-> "document", file_name |-> <<"notes", ".", "txt">>] }

ChannelConfigs == { <<"@", "C0nver1", "_", "bot">>, <<"NONE">> }

MemberStatuses == {"member", "administrator", "creator", "restricted", "left", "kicked"}

OracleAnswers == MemberStatuses \cup {"BadRequest", "Exception"}

-----------------------------------------------------------------------------
(* String helpers *)

TEMP_DIR == <<"temp", "_", "downloads">>

MaxUploadMiB == 49

Max(S) == CHOOSE x \in S : \A y \in S : y <= x

Min(S) == CHOOSE x \in S : \A y \in S : x <= y

\* indices of token c in s
Positions(s, c) == { i \in 1..Len(s) : s[i] = c }

PathJoin(dir, name) == dir \o <<"/">> \o name

Basename(p) ==
    IF Positions(p, "/") = {} THEN p
    ELSE SubSeq(p, Max(Positions(p, "/")) + 1, Len(p))

\* os.path.splitext: <<root, ext>>, the extension starting at the last dot of the
\* last component, unless that dot leads the component
SplitExt(p) ==
    LET slash == IF Positions(p, "/") = {} THEN 0 ELSE Max(Positions(p, "/"))
        dots  == { i \in Positions(p, ".") : i > slash + 1 }
    IN  IF dots = {} THEN <<p, <<>>>>
        ELSE <<SubSeq(p, 1, Max(dots) - 1), SubSeq(p, Max(dots), Len(p))>>

\* a faulty variant of Split2: str.split(sep) with no limit, its first three parts
SplitEvery(s, sep) ==
    LET P  == Positions(s, sep)
    IN  IF P = {} THEN << s >>
        ELSE LET i1 == Min(P)
                 P2 == { i \in P : i > i1 }
             IN  IF P2 = {} THEN << SubSeq(s, 1, i1 - 1), SubSeq(s, i1 + 1, Len(s)) >>
                 ELSE LET i2 == Min(P2)
                          P3 == { i \in P : i > i2 }
                          i3 == IF P3 = {} THEN Len(s) + 1 ELSE Min(P3)
                      IN  << SubSeq(s, 1, i1 - 1),
                             SubSeq(s, i1 + 1, i2 - 1),
                             SubSeq(s, i2 + 1, i3 - 1) >>

\* str.split(sep, 2): at most three parts
Split2(s, sep) ==
    LET P  == Positions(s, sep)
    IN  IF P = {} THEN << s >>
        ELSE LET i1 == Min(P)
                 P2 == { i \in P : i > i1 }
             IN  IF P2 = {} THEN << SubSeq(s, 1, i1 - 1), SubSeq(s, i1 + 1, Len(s)) >>
                 ELSE LET i2 == Min(P2)
                      IN  << SubSeq(s, 1, i1 - 1),
                             SubSeq(s, i1 + 1, i2 - 1),
                             SubSeq(s, i2 + 1, Len(s)) >>

StartsWith(s, pre) == Len(s) >= Len(pre) /\ SubSeq(s, 1, Len(pre)) = pre

\* f"conv_{action}_{filepath}"
CallbackData(action, filepath) == <<"conv", "_", action, "_">> \o filepath

CheckSub == <<"check", "_", "sub">>

Exists(p) == p \in DOMAIN storage

\* a uuid prefix whose path (paths[n] is the path made from Hex(n)) is not taken
FreeHex(paths) == Hex(Min({ n \in 1..Len(HexTable) : ~Exists(paths[n]) }))

Remove(st, p) == [ q \in DOMAIN st \ {p} |-> st[q] ]

WriteFile(st, p, size) == [ q \in DOMAIN st \cup {p} |-> IF q = p THEN size ELSE st[q] ]

-----------------------------------------------------------------------------
(* Updates being handled *)

NoMsg == [user |-> "-", kind |-> "-", path |-> <<>>]

Idle ==
    [ kind        |-> "idle",   \* the handler
      user        |-> "-",      \* update.effective_user.id
      pc          |-> "idle",   \* the await the handler is suspended at
      answer      |-> "none",   \* what get_chat_member answered
      queries     |-> 0,        \* get_chat_member calls made
      acked       |-> FALSE,    \* query.answer() done
      data        |-> <<>>,     \* query.data, or the link's URL basename
      msg         |-> NoMsg,    \* query.message
      ftype       |-> "-",      \* file_type
      file_name   |-> None,     \* file_obj.file_name
      filepath    |-> <<>>,     \* filepath / zip_filename
      output_path |-> <<>>,     \* output_path
      files       |-> <<>>,     \* the session list the handler's loop ran over
      entries     |-> <<>>,     \* members written to the archive
      ran         |-> FALSE,    \* the transcoder was invoked
      sent        |-> 0,        \* size of the document uploaded to the user
      outcome     |-> "none" ]  \* the text the user is shown

Running(t) == tasks[t].pc \notin {"idle", "done"}

\* a faulty variant of CanStart: the application built with concurrent_updates(True),
\* an update is taken while another handler is suspended at an await
CanStartWhileBusy(t, u) ==
    /\ updates < MaxUpdates
    /\ updates = 0 => u = "u1"
    /\ t = Min({ s \in Tasks : tasks[s].pc = "idle" } \cup { Max(Tasks) })
    /\ tasks[t].pc = "idle"

\* Application.builder().token(TOKEN).build(): concurrent_updates is left at its
\* default, so an update is taken only when no other is being handled
\* (the handlers treat all users alike: the first update is taken to be u1's)
CanStart(t, u) ==
    /\ updates < MaxUpdates
    /\ updates = 0 => u = "u1"
    /\ \A s \in Tasks : tasks[s].pc = "idle"
    /\ t = Min({ s \in Tasks : tasks[s].pc = "idle" })

Set(t, r) == tasks' = [tasks EXCEPT ![t] = r]

Begin(t, kind, u) == [Idle EXCEPT !.kind = kind, !.user = u, !.pc = "gate"]

\* the handler's record once check_subscription has returned to it (member, a
\* local of check_subscription, is gone)
Body(t) == [tasks[t] EXCEPT !.answer = "none"]

\* the buttons a message carries
Buttons(m) ==
    CASE m.kind = "join"  -> { CheckSub }
      [] m.kind = "image" -> { CallbackData("png", m.path), CallbackData("webp", m.path),
                               CallbackData("pdf", m.path) }
      [] m.kind = "video" -> { CallbackData("mp3", m.path) }
      [] OTHER            -> {}

JoinPrompt(u) == [user |-> u, kind |-> "join", path |-> <<>>]

-----------------------------------------------------------------------------
(* check_subscription *)

ChannelConfigured == ~(REQUIRED_CHANNEL = <<>> \/ REQUIRED_CHANNEL = <<"NONE">>)

\* a faulty variant of StatusAllows: a failed query lets the user in
StatusAllowsFailOpen(a) ==
    IF a \in {"BadRequest", "Exception"} THEN TRUE
    ELSE IF a \in {"left", "kicked"} THEN FALSE
    ELSE TRUE

\* the value check_subscription returns when the oracle answers a
StatusAllows(a) ==
    IF a \in {"BadRequest", "Exception"} THEN FALSE
    ELSE IF a \in {"left", "kicked"} THEN FALSE
    ELSE TRUE

\* a faulty variant of check_subscription: a user who already has a session is let in
\* from memory, without asking the oracle again
check_subscription_cached(t) ==
    /\ tasks[t].pc = "gate"
    /\ IF ~ChannelConfigured \/ tasks[t].user \in DOMAIN user_sessions
       THEN Set(t, [tasks[t] EXCEPT !.pc = "authorized"])
       ELSE \E a \in OracleAnswers :
               Set(t, [tasks[t] EXCEPT !.answer = a, !.queries = @ + 1,
                          !.pc = IF StatusAllows(a) THEN "authorized" ELSE "denied"])
    /\ UNCHANGED <<REQUIRED_CHANNEL, user_sessions, storage, prompts, uuids, updates, converted>>

\* lines 31-49, called once by every handler (lines 69, 88, 133, 208, 216, 256, 297)
check_subscription(t) ==
    /\ tasks[t].pc = "gate"
    /\ IF ~ChannelConfigured
       THEN Set(t, [tasks[t] EXCEPT !.pc = "authorized"])
       ELSE \E a \in OracleAnswers :
               Set(t, [tasks[t] EXCEPT !.answer = a, !.queries = @ + 1,
                          !.pc = IF StatusAllows(a) THEN "authorized" ELSE "denied"])
    /\ UNCHANGED <<REQUIRED_CHANNEL, user_sessions, storage, prompts, uuids, updates, converted>>

\* send_join_prompt, from start, handle_link, handle_media, zip_files, clear_session
send_join_prompt(t) ==
    /\ tasks[t].pc = "denied"
    /\ tasks[t].kind # "button"
    /\ Set(t, [Body(t) EXCEPT !.pc = "done", !.outcome = "join_prompt"])
    /\ UNCHANGED <<REQUIRED_CHANNEL, user_sessions, storage, prompts, uuids, updates, converted>>

-----------------------------------------------------------------------------
(* start *)

StartCommand(t, u) ==
    /\ CanStart(t, u)
    /\ updates' = updates + 1
    /\ Set(t, Begin(t, "start", u))
    /\ UNCHANGED <<REQUIRED_CHANNEL, user_sessions, storage, prompts, uuids, converted>>

start(t) ==
    /\ tasks[t].kind = "start"
    /\ tasks[t].pc = "authorized"
    /\ Set(t, [Body(t) EXCEPT !.pc = "done", !.outcome = "welcome"])
    /\ UNCHANGED <<REQUIRED_CHANNEL, user_sessions, storage, prompts, uuids, updates, converted>>

-----------------------------------------------------------------------------
(* clear_session *)

RECURSIVE RemoveAllButLast(_, _)
\* a faulty variant of RemoveAll: the loop stops one file short
RemoveAllButLast(files, st) ==
    IF Len(files) <= 1 THEN st
    ELSE RemoveAllButLast(Tail(files),
                          IF Head(files) \in DOMAIN st THEN Remove(st, Head(files)) ELSE st)

RECURSIVE RemoveAll(_, _)
\* for file in files: if os.path.exists(file): os.remove(file)
RemoveAll(files, st) ==
    IF files = <<>> THEN st
    ELSE RemoveAll(Tail(files),
                   IF Head(files) \in DOMAIN st THEN Remove(st, Head(files)) ELSE st)

ClearCommand(t, u) ==
    /\ CanStart(t, u)
    /\ updates' = updates + 1
    /\ Set(t, Begin(t, "clear", u))
    /\ UNCHANGED <<REQUIRED_CHANNEL, user_sessions, storage, prompts, uuids, converted>>

\* a faulty variant of ClearAdmits: the result of the gate is ignored
ClearAdmitsAnyone(pc) == pc \in {"authorized", "denied"}

\* who gets past the gate of lines 298-300
ClearAdmits(pc) == pc = "authorized"

clear_session(t) ==
    LET u == tasks[t].user
    IN  /\ tasks[t].kind = "clear"
        /\ ClearAdmits(tasks[t].pc)
        /\ IF u \in DOMAIN user_sessions
           THEN /\ storage' = RemoveAll(user_sessions[u], storage)
                /\ user_sessions' = [user_sessions EXCEPT ![u] = <<>>]
                /\ Set(t, [Body(t) EXCEPT !.pc = "done", !.outcome = "cleared",
                              !.files = user_sessions[u]])
           ELSE /\ Set(t, [Body(t) EXCEPT !.pc = "done", !.outcome = "already_empty"])
                /\ UNCHANGED <<user_sessions, storage>>
        /\ UNCHANGED <<REQUIRED_CHANNEL, prompts, uuids, updates, converted>>

-----------------------------------------------------------------------------
(* handle_media *)

\* the extension the saved file gets (src lines 159-165)
MediaExt(ftype, file_name) ==
    IF file_name # None THEN SplitExt(file_name)[2]
    ELSE IF ftype = "image" THEN <<".", "jpg">>
    ELSE IF ftype = "video" THEN <<".", "mp4">>
    ELSE <<".", "file">>

\* a faulty variant of MediaPath: the name does not vary from file to file
MediaPathFixed(n, ext) == PathJoin(TEMP_DIR, <<Hex(1)>> \o ext)

\* os.path.join(TEMP_DIR, f"{uuid.uuid4().hex}{ext}")
MediaPath(n, ext) == PathJoin(TEMP_DIR, <<Hex(n)>> \o ext)

MediaMessage(t, u) ==
    /\ CanStart(t, u)
    /\ updates' = updates + 1
    /\ Set(t, Begin(t, "media", u))
    /\ UNCHANGED <<REQUIRED_CHANNEL, user_sessions, storage, prompts, uuids, converted>>

\* except Exception (lines 193-195)
MediaFailed(r) == [r EXCEPT !.pc = "done", !.outcome = "media_failed"]

\* lines 138-167: the kind of media is read off the message (m is the message's
\* media), "Processing file..." is sent and get_file is awaited; when it answers
\* the path is drawn and download_to_drive is awaited
MediaGetFile(t, m) ==
    /\ tasks[t].kind = "media"
    /\ tasks[t].pc = "authorized"
    /\ \/ /\ uuids' = uuids + 1
          /\ Set(t, [Body(t) EXCEPT !.pc = "m_download", !.ftype = m.ftype,
                        !.file_name = m.file_name,
                        !.filepath = MediaPath(uuids + 1, MediaExt(m.ftype, m.file_name))])
       \/ /\ Set(t, MediaFailed([Body(t) EXCEPT !.ftype = m.ftype,
                                     !.file_name = m.file_name]))
          /\ UNCHANGED uuids
    /\ UNCHANGED <<REQUIRED_CHANNEL, user_sessions, storage, prompts, updates, converted>>

\* download_to_drive writes the file, or fails before writing
MediaDownload(t) ==
    /\ tasks[t].kind = "media"
    /\ tasks[t].pc = "m_download"
    /\ \/ \E size \in MediaSizes :
             /\ storage' = WriteFile(storage, tasks[t].filepath, size)
             /\ Set(t, [tasks[t] EXCEPT !.pc = "m_append"])
       \/ /\ UNCHANGED storage
          /\ Set(t, MediaFailed(tasks[t]))
    /\ UNCHANGED <<REQUIRED_CHANNEL, user_sessions, prompts, uuids, updates, converted>>

\* a faulty variant of SessionAppend: the list is started anew for every file, so the
\* files listed before are dropped from it
SessionAppendAfresh(sessions, u, filepath) ==
    [ v \in DOMAIN sessions \cup {u} |-> IF v = u THEN << filepath >> ELSE sessions[v] ]

\* src lines 170-172
SessionAppend(sessions, u, filepath) ==
    [ v \in DOMAIN sessions \cup {u} |->
        IF v = u
        THEN Append(IF u \in DOMAIN sessions THEN sessions[u] ELSE <<>>, filepath)
        ELSE sessions[v] ]

\* the file is appended to the session and the buttons are shown (lines 170-191)
MediaAppend(t) ==
    LET u == tasks[t].user
        f == tasks[t].filepath
    IN  /\ tasks[t].kind = "media"
        /\ tasks[t].pc = "m_append"
        /\ user_sessions' = SessionAppend(user_sessions, u, f)
        /\ prompts' = IF tasks[t].ftype \in {"image", "video"}
                      THEN prompts \cup { [user |-> u, kind |-> tasks[t].ftype, path |-> f] }
                      ELSE prompts
        /\ Set(t, [tasks[t] EXCEPT !.pc = "done", !.outcome = "saved"])
        /\ UNCHANGED <<REQUIRED_CHANNEL, storage, uuids, updates, converted>>

-----------------------------------------------------------------------------
(* Size Guard: the comparison of lines 112 and 277 *)

TooLarge(size) == size > MaxUploadMiB

-----------------------------------------------------------------------------
(* handle_link *)

\* the base names a URL's path can end in: none, or the name of a file that is
\* in TEMP_DIR
LinkNames == { <<>> } \cup { Basename(p) : p \in DOMAIN storage }

\* f"download_{uuid.uuid4().hex[:8]}.file"
DownloadName(h) == <<"download", "_", h, ".", "file">>

DownloadPaths == [ n \in 1..Len(HexTable) |-> PathJoin(TEMP_DIR, DownloadName(Hex(n))) ]

\* the texts a message carries: a URL, or some words
LinkTexts == { <<"http", ":", "/", "/", "host", "/">> \o name : name \in LinkNames }
                \cup { <<"hello">> }

LinkMessage(t, u) ==
    /\ CanStart(t, u)
    /\ updates' = updates + 1
    /\ Set(t, Begin(t, "link", u))
    /\ UNCHANGED <<REQUIRED_CHANNEL, user_sessions, storage, prompts, uuids, converted>>

\* re.match(r'^https?://', url)
IsLink(url) == StartsWith(url, <<"http", ":", "/", "/">>) \/ StartsWith(url, <<"https", ":", "/", "/">>)

\* urlparse(url).path: from the first "/" after the host
UrlPath(url) ==
    LET rest == SubSeq(url, 5, Len(url))
        P    == Positions(rest, "/")
    IN  IF P = {} THEN <<>> ELSE SubSeq(rest, Min(P), Len(rest))

\* lines 93-97: url is the message's text
LinkBegin(t, url) ==
    /\ tasks[t].kind = "link"
    /\ tasks[t].pc = "authorized"
    /\ IF IsLink(url)
       THEN Set(t, [Body(t) EXCEPT !.pc = "l_download", !.data = url])
       ELSE Set(t, [Body(t) EXCEPT !.pc = "done", !.outcome = "ignored", !.data = url])
    /\ UNCHANGED <<REQUIRED_CHANNEL, user_sessions, storage, prompts, uuids, updates, converted>>

\* except Exception (lines 123-125), before finally
LinkFailed(r) == [r EXCEPT !.pc = "l_finally", !.outcome = "link_failed"]

\* lines 100-115: the name is derived, the body is fetched and written, the size
\* is checked; the handler suspends at the edit_text of line 113, 117 or 125
LinkDownload(t) ==
    LET base == Basename(UrlPath(tasks[t].data))
        filename == IF base = <<>> THEN DownloadName(FreeHex(DownloadPaths)) ELSE base
        filepath == PathJoin(TEMP_DIR, filename)
    IN  /\ tasks[t].kind = "link"
        /\ tasks[t].pc = "l_download"
        /\ \/ \* requests.get or raise_for_status raises: nothing is written
              /\ UNCHANGED storage
              /\ Set(t, LinkFailed([tasks[t] EXCEPT !.filepath = filepath]))
           \/ \* the stream breaks after the file was opened
              /\ storage' = WriteFile(storage, filepath, 1)
              /\ Set(t, LinkFailed([tasks[t] EXCEPT !.filepath = filepath]))
           \/ \E size \in LinkSizes :
                 /\ storage' = WriteFile(storage, filepath, size)
                 /\ Set(t, [tasks[t] EXCEPT !.filepath = filepath,
                               !.pc = IF TooLarge(size) THEN "l_reject" ELSE "l_upload",
                               !.outcome = IF TooLarge(size) THEN "too_large" ELSE "none"])
        /\ UNCHANGED <<REQUIRED_CHANNEL, user_sessions, prompts, uuids, updates, converted>>

\* line 114, after the rejection text was shown; then return, through finally
LinkReject(t) ==
    /\ tasks[t].kind = "link"
    /\ tasks[t].pc = "l_reject"
    /\ IF Exists(tasks[t].filepath)
       THEN /\ storage' = Remove(storage, tasks[t].filepath)
            /\ Set(t, [tasks[t] EXCEPT !.pc = "done"])
       ELSE /\ UNCHANGED storage
            /\ Set(t, LinkFailed(tasks[t]))
    /\ UNCHANGED <<REQUIRED_CHANNEL, user_sessions, prompts, uuids, updates, converted>>

\* lines 118-121: the file is opened and reply_document is awaited
LinkUpload(t) ==
    /\ tasks[t].kind = "link"
    /\ tasks[t].pc = "l_upload"
    /\ IF Exists(tasks[t].filepath)
       THEN \/ Set(t, [tasks[t] EXCEPT !.pc = "l_finally", !.outcome = "delivered",
                          !.sent = storage[tasks[t].filepath]])
            \/ Set(t, LinkFailed(tasks[t]))
       ELSE Set(t, LinkFailed(tasks[t]))
    /\ UNCHANGED <<REQUIRED_CHANNEL, user_sessions, storage, prompts, uuids, updates, converted>>

\* finally (lines 126-128)
LinkFinally(t) ==
    /\ tasks[t].kind = "link"
    /\ tasks[t].pc = "l_finally"
    /\ storage' = IF Exists(tasks[t].filepath) THEN Remove(storage, tasks[t].filepath)
                  ELSE storage
    /\ Set(t, [tasks[t] EXCEPT !.pc = "done"])
    /\ UNCHANGED <<REQUIRED_CHANNEL, user_sessions, prompts, uuids, updates, converted>>

-----------------------------------------------------------------------------
(* button_callback *)

\* parts = data.split("_", 2); action = parts[1]; filepath = parts[2]
DecodeAction(data) == Split2(data, "_")[2]

DecodePath(data) == Split2(data, "_")[3]

\* the buttons that get clicked
ClickedActions == { "png", "mp3" }

\* the messages with buttons that are on screen.  A join prompt is kept out of
\* the state: when a channel is configured a refused command has put one on
\* screen at no other change of state, so one is always there to click
OnScreen == prompts \cup { JoinPrompt(u) : u \in { v \in Users : ChannelConfigured } }

Click(t, m, d) ==
    /\ CanStart(t, m.user)
    /\ updates' = updates + 1
    /\ m \in OnScreen
    /\ d \in Buttons(m)
    /\ d = CheckSub \/ DecodeAction(d) \in { <<a>> : a \in ClickedActions }
    /\ Set(t, [Begin(t, "button", m.user) EXCEPT !.pc = "answer", !.data = d, !.msg = m])
    /\ UNCHANGED <<REQUIRED_CHANNEL, user_sessions, storage, prompts, uuids, converted>>

\* payloads no keyboard of the bot carries, sent by a client of its own making for
\* message m: an unknown tag, a conversion payload with no path, an unknown action
ForgedPayloads(m) ==
    { <<"help">>, <<"conv", "_", "png">> }
    \cup IF m.path = <<>> THEN {} ELSE { CallbackData("gif", m.path) }

\* a callback query whose data is none of the message's buttons
ForgedClick(t, m, d) ==
    /\ CanStart(t, m.user)
    /\ updates' = updates + 1
    /\ m \in OnScreen
    /\ d \in ForgedPayloads(m)
    /\ Set(t, [Begin(t, "button", m.user) EXCEPT !.pc = "answer", !.data = d, !.msg = m])
    /\ UNCHANGED <<REQUIRED_CHANNEL, user_sessions, storage, prompts, uuids, converted>>

\* await query.answer() (line 203)
ButtonAnswer(t) ==
    /\ tasks[t].kind = "button"
    /\ tasks[t].pc = "answer"
    /\ Set(t, [tasks[t] EXCEPT !.pc = "gate", !.acked = TRUE])
    /\ UNCHANGED <<REQUIRED_CHANNEL, user_sessions, storage, prompts, uuids, updates, converted>>

\* the gate refused: the alert of line 212, or the text of line 217
ButtonDenied(t) ==
    /\ tasks[t].kind = "button"
    /\ tasks[t].pc = "denied"
    /\ IF tasks[t].data = CheckSub
       THEN /\ Set(t, [Body(t) EXCEPT !.pc = "done", !.outcome = "alert_not_joined"])
            /\ UNCHANGED prompts
       ELSE /\ Set(t, [Body(t) EXCEPT !.pc = "done", !.outcome = "must_join"])
            /\ prompts' = prompts \ { tasks[t].msg }
    /\ UNCHANGED <<REQUIRED_CHANNEL, user_sessions, storage, uuids, updates, converted>>

\* a faulty variant of SourceExists: the existence check is skipped
SourceExistsUnchecked(filepath) == TRUE

\* os.path.exists(filepath) of line 225
SourceExists(filepath) == Exists(filepath)

\* lines 207-229, the gate passed
ButtonResolve(t) ==
    LET data == tasks[t].data
    IN  /\ tasks[t].kind = "button"
        /\ tasks[t].pc = "authorized"
        /\ prompts' = IF \/ data = CheckSub
                         \/ StartsWith(data, <<"conv", "_">>) /\ Len(Split2(data, "_")) >= 3
                      THEN prompts \ { tasks[t].msg } ELSE prompts
        /\ IF data = CheckSub
           THEN Set(t, [Body(t) EXCEPT !.pc = "done", !.outcome = "thanks"])
           ELSE IF ~StartsWith(data, <<"conv", "_">>)
           THEN Set(t, [Body(t) EXCEPT !.pc = "done"])
           ELSE IF Len(Split2(data, "_")) < 3
           THEN Set(t, [Body(t) EXCEPT !.pc = "done", !.outcome = "IndexError"])
           ELSE IF ~SourceExists(DecodePath(data))
           THEN Set(t, [Body(t) EXCEPT !.pc = "done", !.outcome = "expired",
                           !.filepath = DecodePath(data)])
           ELSE Set(t, [Body(t) EXCEPT !.pc = "b_convert", !.filepath = DecodePath(data)])
        /\ UNCHANGED <<REQUIRED_CHANNEL, user_sessions, storage, uuids, updates, converted>>

\* f"{os.path.splitext(filepath)[0]}_converted{output_ext}"
OutputPath(filepath, action) ==
    SplitExt(filepath)[1] \o <<"_", "converted">> \o <<".">> \o action

KnownAction(action) == action \in { <<"png">>, <<"webp">>, <<"jpg">>, <<"pdf">>, <<"mp3">> }

\* what the handler does when subprocess.run raised (lines 249-251)
AfterTranscodeError(t, r) == [r EXCEPT !.pc = "done", !.outcome = "conv_error"]

\* lines 231-241 and 246-251: the transcoder runs to its end; a zero exit leaves
\* an output or none, a non-zero exit raises and may leave a partial output
ButtonConvert(t) ==
    LET src == tasks[t].filepath
        act == DecodeAction(tasks[t].data)
        out == OutputPath(src, act)
        r   == [tasks[t] EXCEPT !.output_path = out, !.ran = KnownAction(act)]
        after(st, raised) ==
            /\ storage' = st
            /\ Set(t, IF raised THEN AfterTranscodeError(t, r)
                      ELSE IF out \in DOMAIN st THEN [r EXCEPT !.pc = "b_upload"]
                      ELSE [r EXCEPT !.pc = "done", !.outcome = "conv_failed"])
    IN  /\ tasks[t].kind = "button"
        /\ tasks[t].pc = "b_convert"
        /\ IF ~KnownAction(act) THEN after(storage, FALSE)
           ELSE \/ \E size \in OutputSizes :
                      Exists(src) /\ after(WriteFile(storage, out, size), FALSE)
                \/ Exists(src) /\ after(storage, FALSE)
                \/ after(storage, TRUE)
                \/ Exists(src) /\ after(WriteFile(storage, out, 1), TRUE)
        /\ UNCHANGED <<REQUIRED_CHANNEL, user_sessions, prompts, uuids, updates, converted>>

\* line 242: the output is opened and send_document is awaited
ButtonUpload(t) ==
    /\ tasks[t].kind = "button"
    /\ tasks[t].pc = "b_upload"
    /\ IF Exists(tasks[t].output_path)
       THEN Set(t, [tasks[t] EXCEPT !.pc = "b_sending"])
       ELSE Set(t, [tasks[t] EXCEPT !.pc = "done", !.outcome = "conv_error"])
    /\ UNCHANGED <<REQUIRED_CHANNEL, user_sessions, storage, prompts, uuids, updates, converted>>

\* the files the handler removes once the output was sent (line 244)
RemovedAfterSend(t) == { tasks[t].output_path }

\* send_document answers (lines 243-245), or raises (lines 249-251)
ButtonSent(t) ==
    LET out == tasks[t].output_path
    IN  /\ tasks[t].kind = "button"
        /\ tasks[t].pc = "b_sending"
        /\ \/ /\ Exists(out)
              /\ storage' = [ q \in DOMAIN storage \ RemovedAfterSend(t) |-> storage[q] ]
              /\ converted' = converted \cup { tasks[t].filepath }
              /\ Set(t, [tasks[t] EXCEPT !.pc = "done", !.outcome = "converted",
                            !.sent = storage[out]])
           \/ /\ UNCHANGED <<storage, converted>>
              /\ Set(t, [tasks[t] EXCEPT !.pc = "done", !.outcome = "conv_error"])
        /\ UNCHANGED <<REQUIRED_CHANNEL, user_sessions, prompts, uuids, updates>>

-----------------------------------------------------------------------------
(* zip_files *)

\* a faulty variant of ArcName: the member is stored under the path it has on disk
ArcNameFullPath(file) == file

\* the arcname of zipf.write(file, os.path.basename(file))
ArcName(file) == Basename(file)

RECURSIVE ZipLoopRemoveFirst(_, _, _, _)
\* a faulty variant of ZipLoop: the file is removed before it is written to the archive
ZipLoopRemoveFirst(files, st, entries, failAt) ==
    IF files = <<>> THEN [st |-> st, entries |-> entries, ok |-> TRUE]
    ELSE LET f == Head(files)
         IN  IF f \in DOMAIN st
             THEN IF failAt = 1
                  THEN [st |-> Remove(st, f), entries |-> entries, ok |-> FALSE]
                  ELSE ZipLoopRemoveFirst(Tail(files), Remove(st, f),
                               Append(entries, [name |-> ArcName(f), size |-> st[f]]),
                               failAt - 1)
             ELSE ZipLoopRemoveFirst(Tail(files), st, entries, failAt - 1)

RECURSIVE ZipLoop(_, _, _, _)
\* lines 270-273 over files; zipf.write raises at the failAt-th file (never when
\* failAt is 0).  The result: the files left, the members written, and whether
\* the loop ran to its end
ZipLoop(files, st, entries, failAt) ==
    IF files = <<>> THEN [st |-> st, entries |-> entries, ok |-> TRUE]
    ELSE LET f == Head(files)
         IN  IF f \in DOMAIN st
             THEN IF failAt = 1
                  THEN [st |-> st, entries |-> entries, ok |-> FALSE]
                  ELSE ZipLoop(Tail(files), Remove(st, f),
                               Append(entries, [name |-> ArcName(f), size |-> st[f]]),
                               failAt - 1)
             ELSE ZipLoop(Tail(files), st, entries, failAt - 1)

RECURSIVE TotalSize(_)
TotalSize(entries) ==
    IF entries = <<>> THEN 0 ELSE Head(entries).size + TotalSize(Tail(entries))

\* f"Archive_{user_id}_{uuid.uuid4().hex[:6]}.zip" in TEMP_DIR
ArchivePath(u, h) == PathJoin(TEMP_DIR, <<"Archive", "_", u, "_", h, ".", "zip">>)

ArchivePaths(u) == [ n \in 1..Len(HexTable) |-> ArchivePath(u, Hex(n)) ]

ZipCommand(t, u) ==
    /\ CanStart(t, u)
    /\ updates' = updates + 1
    /\ Set(t, Begin(t, "zip", u))
    /\ UNCHANGED <<REQUIRED_CHANNEL, user_sessions, storage, prompts, uuids, converted>>

\* line 261
NoFiles(u) == u \notin DOMAIN user_sessions \/ user_sessions[u] = <<>>

ZipBegin(t) ==
    /\ tasks[t].kind = "zip"
    /\ tasks[t].pc = "authorized"
    /\ IF NoFiles(tasks[t].user)
       THEN Set(t, [Body(t) EXCEPT !.pc = "done", !.outcome = "no_files"])
       ELSE Set(t, [Body(t) EXCEPT !.pc = "z_build"])
    /\ UNCHANGED <<REQUIRED_CHANNEL, user_sessions, storage, prompts, uuids, updates, converted>>

\* except Exception (lines 287-289), before finally
ZipFailed(r) == [r EXCEPT !.pc = "z_finally", !.outcome = "zip_error"]

\* lines 266-281: the archive is written, the session emptied, the size checked
ZipBuild(t) ==
    LET u   == tasks[t].user
        zip == ArchivePath(u, FreeHex(ArchivePaths(u)))
    IN  /\ tasks[t].kind = "zip"
        /\ tasks[t].pc = "z_build"
        /\ \E failAt \in 0..Len(user_sessions[u]) :
              LET res  == ZipLoop(user_sessions[u], storage, <<>>, failAt)
                  size == TotalSize(res.entries)
                  r    == [tasks[t] EXCEPT !.filepath = zip, !.entries = res.entries,
                                             !.files = user_sessions[u]]
              IN  /\ storage' = WriteFile(res.st, zip, size)
                  /\ IF res.ok
                     THEN /\ user_sessions' = [user_sessions EXCEPT ![u] = <<>>]
                          /\ Set(t, IF TooLarge(size)
                                    THEN [r EXCEPT !.pc = "z_reject", !.outcome = "too_large"]
                                    ELSE [r EXCEPT !.pc = "z_upload"])
                     ELSE /\ UNCHANGED user_sessions
                          /\ Set(t, ZipFailed(r))
        /\ UNCHANGED <<REQUIRED_CHANNEL, prompts, uuids, updates, converted>>

\* return of line 279, after the rejection text was shown
ZipReject(t) ==
    /\ tasks[t].kind = "zip"
    /\ tasks[t].pc = "z_reject"
    /\ Set(t, [tasks[t] EXCEPT !.pc = "z_finally"])
    /\ UNCHANGED <<REQUIRED_CHANNEL, user_sessions, storage, prompts, uuids, updates, converted>>

\* lines 282-285: the archive is opened and reply_document is awaited
ZipUpload(t) ==
    /\ tasks[t].kind = "zip"
    /\ tasks[t].pc = "z_upload"
    /\ IF Exists(tasks[t].filepath)
       THEN \/ Set(t, [tasks[t] EXCEPT !.pc = "z_finally", !.outcome = "zip_delivered",
                          !.sent = storage[tasks[t].filepath]])
            \/ Set(t, ZipFailed(tasks[t]))
       ELSE Set(t, ZipFailed(tasks[t]))
    /\ UNCHANGED <<REQUIRED_CHANNEL, user_sessions, storage, prompts, uuids, updates, converted>>

\* a faulty variant of ZipFinally: the archive is removed after the upload, inside the
\* try, so the except branch leaves it behind
ZipRemoveAfterUpload(t) ==
    /\ tasks[t].kind = "zip"
    /\ tasks[t].pc = "z_finally"
    /\ storage' = IF Exists(tasks[t].filepath) /\ tasks[t].outcome # "zip_error"
                  THEN Remove(storage, tasks[t].filepath)
                  ELSE storage
    /\ Set(t, [tasks[t] EXCEPT !.pc = "done"])
    /\ UNCHANGED <<REQUIRED_CHANNEL, user_sessions, prompts, uuids, updates, converted>>

\* finally (lines 290-292)
ZipFinally(t) ==
    /\ tasks[t].kind = "zip"
    /\ tasks[t].pc = "z_finally"
    /\ storage' = IF Exists(tasks[t].filepath) THEN Remove(storage, tasks[t].filepath)
                  ELSE storage
    /\ Set(t, [tasks[t] EXCEPT !.pc = "done"])
    /\ UNCHANGED <<REQUIRED_CHANNEL, user_sessions, prompts, uuids, updates, converted>>

-----------------------------------------------------------------------------
(* The program *)

\* the handler returned: the update is finished
Return(t) ==
    /\ tasks[t].pc = "done"
    /\ Set(t, Idle)
    /\ UNCHANGED <<REQUIRED_CHANNEL, user_sessions, storage, prompts, uuids, updates, converted>>

EmptyMap == [ q \in {} |-> 0 ]

Init ==
    /\ REQUIRED_CHANNEL \in ChannelConfigs
    /\ user_sessions = EmptyMap
    /\ storage = EmptyMap
    /\ prompts = {}
    /\ uuids = 0
    /\ updates = 0
    /\ converted = {}
    /\ tasks = [ t \in Tasks |-> Idle ]

Next ==
    \E t \in Tasks :
        \/ \E u \in Users : StartCommand(t, u)
        \/ \E u \in Users : ClearCommand(t, u)
        \/ \E u \in Users : ZipCommand(t, u)
        \/ \E u \in Users : MediaMessage(t, u)
        \/ \E u \in Users : LinkMessage(t, u)
        \/ \E m \in OnScreen : \E d \in Buttons(m) : Click(t, m, d)
        \/ \E m \in OnScreen : \E d \in ForgedPayloads(m) : ForgedClick(t, m, d)
        \/ check_subscription(t)
        \/ send_join_prompt(t)
        \/ start(t)
        \/ clear_session(t)
        \/ \E m \in MediaInputs : MediaGetFile(t, m)
        \/ MediaDownload(t)
        \/ MediaAppend(t)
        \/ \E url \in LinkTexts : LinkBegin(t, url)
        \/ LinkDownload(t)
        \/ LinkReject(t)
        \/ LinkUpload(t)
        \/ LinkFinally(t)
        \/ ButtonAnswer(t)
        \/ ButtonDenied(t)
        \/ ButtonResolve(t)
        \/ ButtonConvert(t)
        \/ ButtonUpload(t)
        \/ ButtonSent(t)
        \/ ZipBegin(t)
        \/ ZipBuild(t)
        \/ ZipReject(t)
        \/ ZipUpload(t)
        \/ ZipFinally(t)
        \/ Return(t)

Spec == Init /\ [][Next]_vars

-----------------------------------------------------------------------------
(* Properties *)

IsArchive(p) == StartsWith(Basename(p), <<"Archive", "_">>)

Archives(st) == { p \in DOMAIN st : IsArchive(p) }

AllExist(files, st) == \A i \in 1..Len(files) : files[i] \in DOMAIN st

\* C1: when an authorized /clear has completed, the user's session list is empty
\* and none of the files the list referenced exists in storage
C1_ClearEmptiesSession ==
    \A t \in Tasks :
        (tasks[t].kind = "clear" /\ tasks[t].pc = "done" /\ tasks[t].outcome # "join_prompt")
        => /\ tasks[t].outcome \in {"cleared", "already_empty"}
           /\ tasks[t].user \in DOMAIN user_sessions => user_sessions[tasks[t].user] = <<>>
           /\ tasks[t].outcome = "already_empty" => tasks[t].user \notin DOMAIN user_sessions
           /\ \A i \in 1..Len(tasks[t].files) : ~Exists(tasks[t].files[i])

\* a /clear that has just removed a session of two files
C1_Witness ==
    \E t \in Tasks :
        /\ tasks[t].kind = "clear" /\ tasks[t].pc = "done" /\ tasks[t].outcome = "cleared"
        /\ Len(tasks[t].files) = 2

\* C2: an authorized /zip on an empty or absent session reports that there are no
\* files and creates no archive; on a session whose N files all exist it either
\* fails writing the archive, or leaves exactly one archive with N members, the
\* i-th under the base name of the i-th session file, and an empty session list
C2_ZipArchivesSession ==
    [][ \A t \in Tasks :
          LET u == tasks[t].user
          IN  tasks[t].kind = "zip" =>
              /\ (tasks[t].pc = "authorized" /\ NoFiles(u))
                 => /\ tasks'[t].pc = "done" /\ tasks'[t].outcome = "no_files"
                    /\ storage' = storage
                    /\ Archives(storage') = {}
              /\ (tasks[t].pc = "authorized" /\ ~NoFiles(u)) => tasks'[t].pc = "z_build"
              /\ (tasks[t].pc = "z_build" /\ AllExist(user_sessions[u], storage))
                 => \/ tasks'[t].outcome = "zip_error"
                    \/ /\ Archives(storage') = { tasks'[t].filepath }
                       /\ Len(tasks'[t].entries) = Len(user_sessions[u])
                       /\ \A i \in 1..Len(user_sessions[u]) :
                             tasks'[t].entries[i].name = Basename(user_sessions[u][i])
                       /\ user_sessions'[u] = <<>>
      ]_vars

\* a /zip that has archived a session of two existing files
C2_Witness ==
    \E t \in Tasks :
        /\ tasks[t].kind = "zip" /\ tasks[t].pc \in {"z_upload", "z_reject"}
        /\ Len(tasks[t].files) = 2 /\ Len(tasks[t].entries) = 2
        /\ user_sessions[tasks[t].user] = <<>>

\* C3 (as claimed): once a conversion click on an existing source has ended, with
\* the output delivered or the conversion failed, the source no longer exists
C3_SourceDeletedAfterConversion ==
    \A t \in Tasks :
        (/\ tasks[t].kind = "button" /\ tasks[t].pc = "done"
         /\ tasks[t].outcome \in {"converted", "conv_error", "conv_failed"})
        => ~Exists(tasks[t].filepath)

\* C4 (as claimed): photos A then B were sent, "Convert to PNG" was clicked on A
\* and the PNG delivered, then /zip was run (four updates, two files): the archive
\* holds B alone and the session list is empty
C4_ArchiveHoldsOnlyB ==
    \A t \in Tasks :
        (/\ tasks[t].kind = "zip" /\ tasks[t].pc \in {"z_upload", "z_reject"}
         /\ updates = 4 /\ uuids = 2
         /\ Len(tasks[t].files) = 2
         /\ tasks[t].files[1] \in converted /\ tasks[t].files[2] \notin converted)
        => /\ Len(tasks[t].entries) = 1
           /\ tasks[t].entries[1].name = Basename(tasks[t].files[2])
           /\ user_sessions[tasks[t].user] = <<>>

\* C5 (as claimed): when a conversion has failed (the transcoder exited non-zero,
\* or the upload of the output failed) the user is told so and no output file of
\* the conversion remains in storage
C5_NoOrphanedOutput ==
    \A t \in Tasks :
        (tasks[t].kind = "button" /\ tasks[t].pc = "done" /\ tasks[t].ran
         /\ tasks[t].outcome # "converted")
        => /\ tasks[t].outcome \in {"conv_error", "conv_failed"}
           /\ ~Exists(tasks[t].output_path)

\* C6: a conversion click whose source path does not exist changes neither the
\* storage nor any session list and never runs the transcoder; once past the gate
\* it ends at once with the "expired" text
C6_MissingSourceExpires ==
    [][ \A t \in Tasks :
          (/\ tasks[t].kind = "button"
           /\ StartsWith(tasks[t].data, <<"conv", "_">>)
           /\ Len(Split2(tasks[t].data, "_")) = 3
           /\ ~Exists(DecodePath(tasks[t].data)))
          => /\ storage' = storage
             /\ user_sessions' = user_sessions
             /\ ~tasks'[t].ran
             /\ tasks[t].pc = "authorized"
                => tasks'[t].pc = "done" /\ tasks'[t].outcome = "expired"
             /\ tasks'[t].pc = "done" => tasks'[t].outcome \in {"expired", "must_join"}
      ]_vars

\* a click on the button of a file that is gone has ended as expired
C6_Witness ==
    \E t \in Tasks :
        /\ tasks[t].kind = "button" /\ tasks[t].pc = "done" /\ tasks[t].outcome = "expired"
        /\ ~Exists(DecodePath(tasks[t].data))
        /\ ~tasks[t].ran

\* C7 (as claimed): no document larger than the ceiling is uploaded to the user, by
\* the link handler, the conversion or /zip
C7_NothingOverCeilingSent ==
    \A t \in Tasks : tasks[t].sent <= MaxUploadMiB

\* C8 (as claimed): when the too-large rejection is shown to the user, the rejected
\* download or archive no longer exists in storage
C8_RemovedBeforeRejection ==
    \A t \in Tasks :
        (tasks[t].kind \in {"link", "zip"} /\ tasks[t].outcome = "too_large")
        => ~Exists(tasks[t].filepath)

\* the answer a handler gives a user the gate refused
RefusalOf(r) ==
    IF r.kind # "button" THEN "join_prompt"
    ELSE IF r.data = CheckSub THEN "alert_not_joined"
    ELSE "must_join"

C10_GateFailsClosed ==
    \A t \in Tasks :
        /\ tasks[t].pc = "authorized"
           => IF ChannelConfigured
              THEN tasks[t].queries = 1 /\ tasks[t].answer \in MemberStatuses \ {"left", "kicked"}
              ELSE tasks[t].queries = 0 /\ tasks[t].answer = "none"
        /\ tasks[t].pc = "denied"
           => /\ ChannelConfigured
              /\ tasks[t].queries = 1
              /\ tasks[t].answer \in {"left", "kicked", "BadRequest", "Exception"}
        /\ ~ChannelConfigured => tasks[t].queries = 0 /\ tasks[t].answer = "none"

\* the oracle could not be asked (the bot is no admin of the channel) and the user
\* is refused
C10_Witness ==
    \E t \in Tasks :
        /\ ChannelConfigured
        /\ tasks[t].pc = "denied" /\ tasks[t].answer = "BadRequest"

\* C11: the gate keeps no memory.  With a channel configured every handler asks the
\* oracle exactly once, and what it then does follows from that one answer whatever
\* earlier operations of the user were answered: refused, a command, link or media
\* message ends with the join prompt, which carries the recheck button; let in, a
\* recheck click ends with the thanks text and no handler shows a refusal
C11_GateNeverCached ==
    [][ \A t \in Tasks :
          /\ (ChannelConfigured /\ tasks[t].pc = "gate" /\ tasks'[t].pc # "gate")
             => /\ tasks[t].queries = 0 /\ tasks'[t].queries = 1
                /\ tasks'[t].pc = IF tasks'[t].answer \in {"left", "kicked", "BadRequest", "Exception"}
                                  THEN "denied" ELSE "authorized"
          /\ (ChannelConfigured /\ tasks[t].pc # "done" /\ tasks'[t].pc = "done")
             => tasks'[t].queries = 1
          /\ (tasks[t].pc = "denied" /\ tasks[t].kind # "button")
             => /\ tasks'[t].pc = "done" /\ tasks'[t].outcome = "join_prompt"
                /\ JoinPrompt(tasks[t].user) \in OnScreen'
                /\ CheckSub \in Buttons(JoinPrompt(tasks[t].user))
          /\ (tasks[t].pc = "authorized" /\ tasks[t].kind = "button" /\ tasks[t].data = CheckSub)
             => tasks'[t].pc = "done" /\ tasks'[t].outcome = "thanks"
          /\ tasks[t].pc = "authorized"
             => tasks'[t].outcome \notin {"join_prompt", "must_join", "alert_not_joined"}
      ]_vars

\* a user who was let in before (a file of theirs is in their session) has left the
\* channel: their next command asked the oracle once and ended with the join prompt
C11_Witness ==
    \E t \in Tasks :
        /\ tasks[t].pc = "done" /\ tasks[t].kind \in {"zip", "start"}
        /\ tasks[t].outcome = "join_prompt" /\ tasks[t].queries = 1
        /\ tasks[t].user \in DOMAIN user_sessions
        /\ user_sessions[tasks[t].user] # <<>>

-----------------------------------------------------------------------------
(* The button payload as a function: f"conv_{action}_{filepath}" of lines 177-186
   taken apart by data.split("_", 2) of lines 221-223 *)

\* the actions the keyboards of handle_media and the spec's enumeration name
TokenActions == { "png", "webp", "pdf", "jpg", "mp3" }

\* extensions a stored file can get (line 159-165): the defaults, and what
\* os.path.splitext leaves of a file_name, underscores included
TokenExts ==
    { <<".", "jpg">>, <<".", "mp4">>, <<".", "file">>, <<>>, <<".", "tar", "_", "gz">> }

\* the paths the handlers write below TEMP_DIR: media files, downloads, archives and
\* conversion outputs
TokenPaths ==
    LET media == { MediaPath(n, ext) : n \in 1..Len(HexTable), ext \in TokenExts }
    IN  media
        \cup { DownloadPaths[n] : n \in 1..Len(HexTable) }
        \cup { ArchivePath(u, Hex(1)) : u \in Users }
        \cup { OutputPath(MediaPath(1, ext), <<a>>) : ext \in TokenExts, a \in TokenActions }

TokenInit ==
    /\ REQUIRED_CHANNEL = <<"NONE">>
    /\ user_sessions = EmptyMap
    /\ storage = EmptyMap
    /\ prompts = {}
    /\ uuids = 0
    /\ updates = 0
    /\ converted = {}
    /\ \E a \in TokenActions : \E p \in TokenPaths :
          tasks = [ t \in Tasks |->
                      IF t = 1
                      THEN [Idle EXCEPT !.kind = "token", !.pc = "encode",
                                        !.ftype = a, !.filepath = p]
                      ELSE Idle ]

\* handle_media builds the payload of a button for (ftype, filepath)
TokenEncode(t) ==
    /\ tasks[t].kind = "token"
    /\ tasks[t].pc = "encode"
    /\ Set(t, [tasks[t] EXCEPT !.pc = "decode",
                  !.data = CallbackData(tasks[t].ftype, tasks[t].filepath)])
    /\ UNCHANGED <<REQUIRED_CHANNEL, user_sessions, storage, prompts, uuids, updates, converted>>

\* button_callback takes it apart: file_name holds parts[1], output_path parts[2]
TokenDecode(t) ==
    /\ tasks[t].kind = "token"
    /\ tasks[t].pc = "decode"
    /\ Set(t, [tasks[t] EXCEPT !.pc = "done",
                  !.file_name = DecodeAction(tasks[t].data),
                  !.output_path = DecodePath(tasks[t].data)])
    /\ UNCHANGED <<REQUIRED_CHANNEL, user_sessions, storage, prompts, uuids, updates, converted>>

TokenNext == \E t \in Tasks : TokenEncode(t) \/ TokenDecode(t)

SpecToken == TokenInit /\ [][TokenNext]_vars

\* C12: taking apart the payload built for an action and a path gives back that
\* action and that path, whatever underscores the path holds
C12_TokenRoundTrip ==
    \A t \in Tasks :
        (tasks[t].kind = "token" /\ tasks[t].pc = "done")
        => /\ tasks[t].file_name = << tasks[t].ftype >>
           /\ tasks[t].output_path = tasks[t].filepath

\* a payload for a path with underscores in the directory, the name and the
\* extension has been taken apart
C12_Witness ==
    \E t \in Tasks :
        /\ tasks[t].kind = "token" /\ tasks[t].pc = "done"
        /\ tasks[t].ftype = "webp"
        /\ tasks[t].filepath = MediaPath(2, <<".", "tar", "_", "gz">>)

\* a payload outside the enumeration: not the recheck tag, and not conv_, one of the
\* five actions, _ and a path
Malformed(data) ==
    /\ data # CheckSub
    /\ ~ /\ StartsWith(data, <<"conv", "_">>)
         /\ Len(Split2(data, "_")) = 3
         /\ DecodeAction(data) \in { <<a>> : a \in TokenActions }

\* C13 (as claimed): a click with a malformed payload, from a user the gate lets in,
\* ends with a failure text shown to the user, with no exception leaving the handler
\* and without the transcoder having run
C13_MalformedRejected ==
    \A t \in Tasks :
        ( /\ tasks[t].kind = "button" /\ tasks[t].pc = "done"
          /\ Malformed(tasks[t].data)
          /\ tasks[t].outcome # "must_join" )
        => /\ tasks[t].outcome \in {"conv_failed", "conv_error", "expired"}
           /\ ~tasks[t].ran

\* the /zip handlers that have created their archive and not yet left
ZipInFlight == { t \in Tasks : tasks[t].kind = "zip"
                                /\ tasks[t].pc \in {"z_reject", "z_upload", "z_finally"} }

\* C14: an archive exists in storage only while the /zip handler that created it is
\* still running; when the handler has finished (delivered, rejected as too large,
\* failed while adding a file or while uploading) its archive is gone
C14_ArchiveAlwaysRemoved ==
    /\ Archives(storage) \subseteq { tasks[t].filepath : t \in ZipInFlight }
    /\ \A t \in Tasks :
          (tasks[t].kind = "zip" /\ tasks[t].pc = "done" /\ tasks[t].filepath # <<>>)
          => ~Exists(tasks[t].filepath)

\* a /zip that wrote a member into its archive and then failed, in the loop or in
\* the upload, has finished
C14_Witness ==
    \E t \in Tasks :
        /\ tasks[t].kind = "zip" /\ tasks[t].pc = "done"
        /\ tasks[t].outcome = "zip_error"
        /\ tasks[t].entries # <<>>
        /\ IsArchive(tasks[t].filepath)

\* the extensions handle_media gives the files it saves, and the paths it has drawn
MediaExts == { MediaExt(m.ftype, m.file_name) : m \in MediaInputs }

SavedPaths == { MediaPath(n, e) : n \in 1..uuids, e \in MediaExts }

C16_HandleInOneSession ==
    \A u \in DOMAIN user_sessions : \A v \in DOMAIN user_sessions :
        \A i \in 1..Len(user_sessions[u]) : \A j \in 1..Len(user_sessions[v]) :
            user_sessions[u][i] = user_sessions[v][j] => (u = v /\ i = j)

\* both users have files listed, one of them two
C16_Witness ==
    /\ DOMAIN user_sessions = Users
    /\ \A u \in Users : Len(user_sessions[u]) >= 1
    /\ \E u \in Users : Len(user_sessions[u]) >= 2

\* C17 (as claimed): the path a link download is written to is not the path of a file
\* that exists, so the download overwrites nothing, and no step of the link handler
\* changes or removes a file listed in a session
C17_PathsNeverCoincide ==
    [][ \A t \in Tasks :
          (tasks[t].kind = "link" /\ tasks'[t] # tasks[t])
          => /\ tasks[t].pc = "l_download"
                => \A p \in DOMAIN storage :
                      p \in DOMAIN storage' /\ storage'[p] = storage[p]
             /\ \A u \in DOMAIN user_sessions : \A i \in 1..Len(user_sessions[u]) :
                   LET f == user_sessions[u][i]
                   IN  f \in DOMAIN storage
                       => f \in DOMAIN storage' /\ storage'[f] = storage[f]
      ]_vars

C19_DeletedOnlyAfterAdded ==
    [][ \A t \in Tasks :
          (tasks[t].kind = "zip" /\ tasks[t].pc = "z_build" /\ tasks'[t] # tasks[t])
          => LET old      == user_sessions[tasks[t].user]
                 existing == SelectSeq(old, LAMBDA f : f \in DOMAIN storage)
                 added    == tasks'[t].entries
             IN  /\ Len(added) <= Len(existing)
                 /\ \A i \in 1..Len(existing) :
                       IF i <= Len(added)
                       THEN /\ added[i].name = Basename(existing[i])
                            /\ existing[i] \notin DOMAIN storage'
                       ELSE /\ existing[i] \in DOMAIN storage'
                            /\ storage'[existing[i]] = storage[existing[i]]
                 /\ tasks'[t].outcome = "zip_error"
                    => /\ Len(added) < Len(existing)
                       /\ user_sessions' = user_sessions
                 /\ tasks'[t].outcome # "zip_error" => Len(added) = Len(existing)
      ]_vars

\* adding the second of two files failed: the first is in the archive and gone, the
\* second is still in storage and both are still listed
C19_Witness ==
    \E t \in Tasks :
        /\ tasks[t].kind = "zip" /\ tasks[t].pc = "z_finally"
        /\ tasks[t].outcome = "zip_error"
        /\ Len(tasks[t].entries) = 1
        /\ Len(user_sessions[tasks[t].user]) = 2
        /\ ~Exists(user_sessions[tasks[t].user][1])
        /\ Exists(user_sessions[tasks[t].user][2])

\* the conversions that have an output to upload
Uploading == { t \in Tasks : tasks[t].kind = "button"
                              /\ tasks[t].pc \in {"b_upload", "b_sending"} }

====
